---------------------------- MODULE Spec2Model ----------------------------
(***************************************************************************)
(* A model of Content_type_converter.py: the conversion engine             *)
(* (convert_body and the SUPPORTED_TYPES registry), the four parsers, the  *)
(* four formatters and their recursive helpers.                            *)
(*                                                                         *)
(* Python strings are sequences of one-character strings, so that          *)
(* trimming, lower-casing, percent-encoding, bracket paths, JSON text and  *)
(* XML text are computed character by character.  An Intermediate Value is *)
(* a record [t, s, keys, vals]:                                            *)
(*    t = "S"  a str,  s its characters                                    *)
(*    t = "I"  an int, s its decimal digits                                *)
(*    t = "O"  a dict, keys/vals its items in insertion order              *)
(*    t = "A"  a list, vals its items                                      *)
(***************************************************************************)
EXTENDS Integers, Sequences, FiniteSets, TLC

VARIABLES
    SUPPORTED_TYPES,    \* the module-level registry: name -> (header, parser, formatter)
    args,               \* per call of convert_body: the arguments as the caller passed them
    pc,                 \* per call of convert_body: where the call stands
    body,               \* per call: the body argument
    source_type,        \* per call: the source_type argument, normalised in place
    target_type,        \* per call: the target_type argument, normalised in place
    intermediate_dict,  \* per call: the local intermediate_dict
    target_header,      \* per call: the local target_header
    converted_body,     \* per call: the local converted_body
    result,             \* per call: what the call returned or raised
    parser_calls,       \* per call: how many times a parser was run on the body
    step,               \* where a direct call of a parser or a formatter stands
    node,               \* the root element ET.fromstring handed to parse_xml_to_dict
    data,               \* the argument of a formatter
    flattened_data,     \* the local flattened_data of format_dict_to_form
    text,               \* what the formatter returned or raised; a parser's body
    parsed,             \* what the parser returned or raised
    parsed_again,       \* what parsing the formatted text again returned or raised
    json_text           \* what format_dict_to_json returned for the same argument

convVars == <<SUPPORTED_TYPES, args, pc, body, source_type, target_type, intermediate_dict,
              target_header, converted_body, result, parser_calls>>

pureVars == <<step, node, data, flattened_data, text, parsed, parsed_again, json_text>>

vars == <<convVars, pureVars>>

-----------------------------------------------------------------------------
(* Characters *)

\* The printable ASCII characters, code 32 (space) to 126 (~), in code order.
ASCII ==
    <<" ", "!", "\"", "#", "$", "%", "&", "'", "(", ")", "*", "+", ",", "-", ".", "/",
      "0", "1", "2", "3", "4", "5", "6", "7", "8", "9", ":", ";", "<", "=", ">", "?",
      "@", "A", "B", "C", "D", "E", "F", "G", "H", "I", "J", "K", "L", "M", "N", "O",
      "P", "Q", "R", "S", "T", "U", "V", "W", "X", "Y", "Z", "[", "\\", "]", "^", "_",
      "BACKTICK", "a", "b", "c", "d", "e", "f", "g", "h", "i", "j", "k", "l", "m", "n", "o",
      "p", "q", "r", "s", "t", "u", "v", "w", "x", "y", "z", "{", "|", "}", "~">>

HexDigits == <<"0", "1", "2", "3", "4", "5", "6", "7", "8", "9",
               "A", "B", "C", "D", "E", "F">>

Digits == {"0", "1", "2", "3", "4", "5", "6", "7", "8", "9"}

UpperLetters == {ASCII[i] : i \in 34..59}

LowerLetters == {ASCII[i] : i \in 66..91}

\* The code point of a character (ASCII, and the three control characters used).
Ord(c) ==
    CASE c = "\t" -> 9
      [] c = "\n" -> 10
      [] c = "\r" -> 13
      [] OTHER -> 31 + (CHOOSE i \in 1..Len(ASCII) : ASCII[i] = c)

\* The character of a code point, "" when the model has none for it.
Chr(n) ==
    CASE n = 9 -> "\t"
      [] n = 10 -> "\n"
      [] n = 13 -> "\r"
      [] n >= 32 /\ n <= 126 -> ASCII[n - 31]
      [] OTHER -> ""

\* str.isspace for the characters of the model.
IsSpace(c) == c \in {" ", "\t", "\n", "\r"}

\* str.lower on one character.
LowerChar(c) == IF c \in UpperLetters THEN Chr(Ord(c) + 32) ELSE c

\* str.lower
lower(s) == [i \in 1..Len(s) |-> LowerChar(s[i])]

RECURSIVE lstrip(_)
lstrip(s) == IF s # <<>> /\ IsSpace(Head(s)) THEN lstrip(Tail(s)) ELSE s

RECURSIVE rstrip(_)
rstrip(s) ==
    IF s # <<>> /\ IsSpace(s[Len(s)]) THEN rstrip(SubSeq(s, 1, Len(s) - 1)) ELSE s

\* str.strip() with no argument: surrounding whitespace removed.
strip(s) == rstrip(lstrip(s))

\* s[i:] of Python, for a 1-based i.
From(s, i) == SubSeq(s, i, Len(s))

\* s.startswith(p, i - 1)
StartsWith(s, i, p) ==
    /\ i + Len(p) - 1 <= Len(s)
    /\ \A j \in 1..Len(p) : s[i + j - 1] = p[j]

\* The concatenation of a sequence of strings.
RECURSIVE Concat(_)
Concat(ss) == IF ss = <<>> THEN <<>> ELSE Head(ss) \o Concat(Tail(ss))

\* sep.join(ss)
RECURSIVE join(_, _)
join(sep, ss) ==
    IF ss = <<>> THEN <<>>
    ELSE IF Len(ss) = 1 THEN ss[1]
    ELSE ss[1] \o sep \o join(sep, Tail(ss))

\* s.split(sep) for a one-character sep: the pieces between the separators.
RECURSIVE split(_, _)
split(s, sep) ==
    IF \A i \in 1..Len(s) : s[i] # sep THEN <<s>>
    ELSE LET i == CHOOSE k \in 1..Len(s) :
                      s[k] = sep /\ \A j \in 1..(k - 1) : s[j] # sep
         IN <<SubSeq(s, 1, i - 1)>> \o split(From(s, i + 1), sep)

\* s.split(sep, 1): at most two pieces.
split1(s, sep) ==
    IF \A i \in 1..Len(s) : s[i] # sep THEN <<s>>
    ELSE LET i == CHOOSE k \in 1..Len(s) :
                      s[k] = sep /\ \A j \in 1..(k - 1) : s[j] # sep
         IN <<SubSeq(s, 1, i - 1), From(s, i + 1)>>

\* str(i) for a small non-negative int.
RECURSIVE IntStr(_)
IntStr(i) == IF i < 10 THEN <<ASCII[17 + i]>> ELSE IntStr(i \div 10) \o <<ASCII[17 + (i % 10)]>>

-----------------------------------------------------------------------------
(* Intermediate values: Python str, int, dict and list *)

StrVal(s) == [t |-> "S", s |-> s, keys |-> <<>>, vals |-> <<>>]

IntVal(s) == [t |-> "I", s |-> s, keys |-> <<>>, vals |-> <<>>]

Dict(ks, vs) == [t |-> "O", s |-> <<>>, keys |-> ks, vals |-> vs]

List(vs) == [t |-> "A", s |-> <<>>, keys |-> <<>>, vals |-> vs]

\* isinstance(v, dict), isinstance(v, list)
IsDict(v) == v.t = "O"

IsList(v) == v.t = "A"

IsScalar(v) == v.t \in {"S", "I"}

\* k in d
DictHas(d, k) == \E i \in 1..Len(d.keys) : d.keys[i] = k

\* d[k]
DictGet(d, k) == d.vals[CHOOSE i \in 1..Len(d.keys) : d.keys[i] = k]

\* d[k] = v: an existing key keeps its place, a new key goes last.
DictSet(d, k, v) ==
    IF DictHas(d, k)
    THEN LET i == CHOOSE j \in 1..Len(d.keys) : d.keys[j] = k
         IN Dict(d.keys, [d.vals EXCEPT ![i] = v])
    ELSE Dict(Append(d.keys, k), Append(d.vals, v))

\* d.items(): the sequence of <<key, value>> pairs.
DictItems(d) == [i \in 1..Len(d.keys) |-> <<d.keys[i], d.vals[i]>>]

\* dict(items): later pairs overwrite earlier ones with the same key.
RECURSIVE DictFromItems(_, _)
DictFromItems(d, items) ==
    IF items = <<>> THEN d
    ELSE DictFromItems(DictSet(d, items[1][1], items[1][2]), Tail(items))

dict(items) == DictFromItems(Dict(<<>>, <<>>), items)

\* Python's == on values: dicts compare as mappings, whatever their order.
RECURSIVE PyEq(_, _)
PyEq(a, b) ==
    /\ a.t = b.t
    /\ a.s = b.s
    /\ Len(a.vals) = Len(b.vals)
    /\ IF a.t = "O"
       THEN \A i \in 1..Len(a.keys) :
                /\ DictHas(b, a.keys[i])
                /\ PyEq(a.vals[i], DictGet(b, a.keys[i]))
       ELSE \A i \in 1..Len(a.vals) : PyEq(a.vals[i], b.vals[i])

-----------------------------------------------------------------------------
(* What a call returns or raises *)

\* A normal return of v.
Return(v) == [exc |-> "none", val |-> v, msg |-> <<>>]

\* An exception of class e; msg is <<what the message says, the value it names>>.
Raise(e, m) == [exc |-> e, val |-> <<>>, msg |-> m]

\* A local that holds nothing yet.
Unset == [exc |-> "unset", val |-> <<>>, msg |-> <<>>]

\* None, where a value is expected.
None == [t |-> "N", s |-> <<>>, keys |-> <<>>, vals |-> <<>>]

Returned(r) == r.exc = "none"

-----------------------------------------------------------------------------
(* str(), repr() and json.dumps(..., indent=2) *)

\* repr of a str: single quotes unless the text holds ' and no ".
ReprQuote(s) ==
    IF (\E i \in 1..Len(s) : s[i] = "'") /\ ~(\E i \in 1..Len(s) : s[i] = "\"")
    THEN "\"" ELSE "'"

ReprChar(c, q) ==
    CASE c = "\\" -> <<"\\", "\\">>
      [] c = q    -> <<"\\", q>>
      [] c = "\n" -> <<"\\", "n">>
      [] c = "\r" -> <<"\\", "r">>
      [] c = "\t" -> <<"\\", "t">>
      [] OTHER    -> <<c>>

ReprStr(s) ==
    LET q == ReprQuote(s)
    IN <<q>> \o Concat([i \in 1..Len(s) |-> ReprChar(s[i], q)]) \o <<q>>

\* repr(v): what str() shows of a value inside a list or a dict.
RECURSIVE repr(_)
repr(v) ==
    CASE v.t = "S" -> ReprStr(v.s)
      [] v.t = "I" -> v.s
      [] v.t = "A" ->
            <<"[">> \o join(<<",", " ">>, [i \in 1..Len(v.vals) |-> repr(v.vals[i])])
                    \o <<"]">>
      [] v.t = "O" ->
            <<"{">> \o join(<<",", " ">>,
                            [i \in 1..Len(v.keys) |->
                                ReprStr(v.keys[i]) \o <<":", " ">> \o repr(v.vals[i])])
                    \o <<"}">>

\* str(v): a str is itself, anything else shows as its repr.
str(v) == IF v.t = "S" THEN v.s ELSE repr(v)

JsonChar(c) ==
    CASE c = "\\" -> <<"\\", "\\">>
      [] c = "\"" -> <<"\\", "\"">>
      [] c = "\n" -> <<"\\", "n">>
      [] c = "\r" -> <<"\\", "r">>
      [] c = "\t" -> <<"\\", "t">>
      [] OTHER    -> <<c>>

\* A JSON string literal.
JsonStr(s) == <<"\"">> \o Concat([i \in 1..Len(s) |-> JsonChar(s[i])]) \o <<"\"">>

\* The line break and indentation json.dumps writes at nesting level n.
JsonNewline(n) == <<"\n">> \o [i \in 1..(2 * n) |-> " "]

RECURSIVE JsonEncode(_, _)
JsonEncode(v, n) ==
    CASE v.t = "S" -> JsonStr(v.s)
      [] v.t = "I" -> v.s
      [] v.t = "A" ->
            IF v.vals = <<>> THEN <<"[", "]">>
            ELSE <<"[">> \o JsonNewline(n + 1)
                 \o join(<<",">> \o JsonNewline(n + 1),
                         [i \in 1..Len(v.vals) |-> JsonEncode(v.vals[i], n + 1)])
                 \o JsonNewline(n) \o <<"]">>
      [] v.t = "O" ->
            IF v.keys = <<>> THEN <<"{", "}">>
            ELSE <<"{">> \o JsonNewline(n + 1)
                 \o join(<<",">> \o JsonNewline(n + 1),
                         [i \in 1..Len(v.keys) |->
                             JsonStr(v.keys[i]) \o <<":", " ">>
                                 \o JsonEncode(v.vals[i], n + 1)])
                 \o JsonNewline(n) \o <<"}">>

\* json.dumps(v, indent=2)
json_dumps(v) == JsonEncode(v, 0)

-----------------------------------------------------------------------------
(* json.loads: a recursive-descent reading of JSON text.  The value kinds   *)
(* read are those of the model: strings, non-negative integers, arrays and *)
(* objects; anything else in the text is reported as a decode error.       *)

JsonFail == [ok |-> FALSE, val |-> StrVal(<<>>), i |-> 0]

JsonOk(v, i) == [ok |-> TRUE, val |-> v, i |-> i]

\* The first position at or after i that holds no JSON whitespace.
RECURSIVE JsonSkip(_, _)
JsonSkip(s, i) == IF i <= Len(s) /\ IsSpace(s[i]) THEN JsonSkip(s, i + 1) ELSE i

\* The characters of a string literal whose opening quote precedes position i.
RECURSIVE JsonString(_, _, _)
JsonString(s, i, acc) ==
    IF i > Len(s) \/ s[i] \in {"\n", "\r", "\t"} THEN JsonFail
    ELSE IF s[i] = "\"" THEN JsonOk(StrVal(acc), i + 1)
    ELSE IF s[i] = "\\"
         THEN IF i + 1 > Len(s) THEN JsonFail
              ELSE CASE s[i + 1] \in {"\"", "\\", "/"} ->
                            JsonString(s, i + 2, Append(acc, s[i + 1]))
                     [] s[i + 1] = "n" -> JsonString(s, i + 2, Append(acc, "\n"))
                     [] s[i + 1] = "r" -> JsonString(s, i + 2, Append(acc, "\r"))
                     [] s[i + 1] = "t" -> JsonString(s, i + 2, Append(acc, "\t"))
                     [] OTHER -> JsonFail
    ELSE JsonString(s, i + 1, Append(acc, s[i]))

\* The end of the run of digits that starts at i.
RECURSIVE JsonDigits(_, _)
JsonDigits(s, i) == IF i <= Len(s) /\ s[i] \in Digits THEN JsonDigits(s, i + 1) ELSE i

JsonNumber(s, i) ==
    LET j == IF s[i] = "0" THEN i + 1 ELSE JsonDigits(s, i)
    IN IF j <= Len(s) /\ s[j] \in {".", "e", "E"} THEN JsonFail
       ELSE JsonOk(IntVal(SubSeq(s, i, j - 1)), j)

RECURSIVE JsonValue(_, _)
RECURSIVE JsonItems(_, _, _)
RECURSIVE JsonMembers(_, _, _)

\* The items of an array after its "[", up to and including its "]".
JsonItems(s, i, acc) ==
    LET r == JsonValue(s, i)
        j == JsonSkip(s, r.i)
    IN IF ~r.ok \/ j > Len(s) THEN JsonFail
       ELSE IF s[j] = "," THEN JsonItems(s, j + 1, Append(acc, r.val))
       ELSE IF s[j] = "]" THEN JsonOk(List(Append(acc, r.val)), j + 1)
       ELSE JsonFail

\* The members of an object after its "{", up to and including its "}".  A
\* repeated name keeps its last value.
JsonMembers(s, i, d) ==
    IF i > Len(s) \/ s[i] # "\"" THEN JsonFail
    ELSE LET k == JsonString(s, i + 1, <<>>)
             j == JsonSkip(s, k.i)
         IN IF ~k.ok \/ j > Len(s) \/ s[j] # ":" THEN JsonFail
            ELSE LET v == JsonValue(s, j + 1)
                     m == JsonSkip(s, v.i)
                 IN IF ~v.ok \/ m > Len(s) THEN JsonFail
                    ELSE IF s[m] = ","
                         THEN JsonMembers(s, JsonSkip(s, m + 1), DictSet(d, k.val.s, v.val))
                    ELSE IF s[m] = "}" THEN JsonOk(DictSet(d, k.val.s, v.val), m + 1)
                    ELSE JsonFail

JsonValue(s, i0) ==
    LET i == JsonSkip(s, i0)
    IN IF i > Len(s) THEN JsonFail
       ELSE IF s[i] = "\"" THEN JsonString(s, i + 1, <<>>)
       ELSE IF s[i] \in Digits THEN JsonNumber(s, i)
       ELSE IF s[i] = "["
            THEN LET j == JsonSkip(s, i + 1)
                 IN IF j <= Len(s) /\ s[j] = "]" THEN JsonOk(List(<<>>), j + 1)
                    ELSE JsonItems(s, j, <<>>)
       ELSE IF s[i] = "{"
            THEN LET j == JsonSkip(s, i + 1)
                 IN IF j <= Len(s) /\ s[j] = "}" THEN JsonOk(Dict(<<>>, <<>>), j + 1)
                    ELSE JsonMembers(s, j, Dict(<<>>, <<>>))
       ELSE JsonFail

\* json.loads(s): the value, or JSONDecodeError (also for text after the value).
json_loads(s) ==
    LET r == JsonValue(s, 1)
    IN IF r.ok /\ JsonSkip(s, r.i) > Len(s) THEN Return(r.val)
       ELSE Raise("JSONDecodeError", <<"Expecting value", <<>>>>)

-----------------------------------------------------------------------------
(* urllib.parse: quote_plus, unquote, urlencode, parse_qs *)

\* The two upper-case hex digits of a code point.
Hex2(n) == <<HexDigits[(n \div 16) + 1], HexDigits[(n % 16) + 1]>>

IsHexDigit(c) == c \in Digits \cup {"A", "B", "C", "D", "E", "F", "a", "b", "c", "d", "e", "f"}

HexVal(c) ==
    IF c \in Digits THEN Ord(c) - 48
    ELSE IF c \in UpperLetters THEN Ord(c) - 55
    ELSE Ord(c) - 87

\* Characters quote_plus leaves as they are.
IsUnreserved(c) == c \in UpperLetters \cup LowerLetters \cup Digits \cup {"_", ".", "-", "~"}

QuoteChar(c) ==
    IF IsUnreserved(c) THEN <<c>>
    ELSE IF c = " " THEN <<"+">>
    ELSE <<"%">> \o Hex2(Ord(c))

\* quote_plus(s)
quote_plus(s) == Concat([i \in 1..Len(s) |-> QuoteChar(s[i])])

\* unquote(s): every %XX with two hex digits becomes its character; any other
\* "%" stays.  An escape of a code point the model has no character for stays
\* as written.
RECURSIVE unquote(_)
unquote(s) ==
    IF s = <<>> THEN <<>>
    ELSE IF /\ s[1] = "%"
            /\ Len(s) >= 3
            /\ IsHexDigit(s[2])
            /\ IsHexDigit(s[3])
            /\ Chr(16 * HexVal(s[2]) + HexVal(s[3])) # ""
         THEN <<Chr(16 * HexVal(s[2]) + HexVal(s[3]))>> \o unquote(From(s, 4))
    ELSE <<s[1]>> \o unquote(Tail(s))

\* s.replace('+', ' ')
PlusToSpace(s) == [i \in 1..Len(s) |-> IF s[i] = "+" THEN " " ELSE s[i]]

\* urlencode(d) with doseq left False: each value through str() and quote_plus().
urlencode(d) ==
    join(<<"&">>,
         [i \in 1..Len(d.keys) |->
             quote_plus(d.keys[i]) \o <<"=">> \o quote_plus(str(d.vals[i]))])

\* parse_qsl(qs) with its defaults (keep_blank_values=False, strict_parsing=False):
\* the <<name, value>> pairs of the fields that have an "=" and a non-empty value.
RECURSIVE parse_qsl_fields(_)
parse_qsl_fields(fields) ==
    IF fields = <<>> THEN <<>>
    ELSE LET nv == split1(fields[1], "=")
         IN IF fields[1] = <<>> \/ Len(nv) # 2 \/ Len(nv[2]) = 0
            THEN parse_qsl_fields(Tail(fields))
            ELSE <<<<unquote(PlusToSpace(nv[1])), unquote(PlusToSpace(nv[2]))>>>>
                 \o parse_qsl_fields(Tail(fields))

parse_qsl(qs) == parse_qsl_fields(split(qs, "&"))

\* parse_qs collects the pairs: name -> list of its values, names in first-seen order.
RECURSIVE parse_qs_collect(_, _)
parse_qs_collect(d, pairs) ==
    IF pairs = <<>> THEN d
    ELSE LET name == pairs[1][1]
             value == StrVal(pairs[1][2])
         IN parse_qs_collect(
                IF DictHas(d, name)
                THEN DictSet(d, name, List(Append(DictGet(d, name).vals, value)))
                ELSE DictSet(d, name, List(<<value>>)),
                Tail(pairs))

parse_qs(qs) == parse_qs_collect(Dict(<<>>, <<>>), parse_qsl(qs))

-----------------------------------------------------------------------------
(* The form adapter *)

RECURSIVE _flatten_dict_for_form(_, _)
RECURSIVE FlattenEntries(_, _, _)
RECURSIVE FlattenList(_, _, _)

\* The body of "for i, item in enumerate(v)" from the item at i (1-based) on:
\* a dict item is flattened under new_key[i-1], any other item is appended as
\* it is.
FlattenList(v, new_key, i) ==
    IF i > Len(v.vals) THEN <<>>
    ELSE LET item == v.vals[i]
             key == new_key \o <<"[">> \o IntStr(i - 1) \o <<"]">>
         IN (IF IsDict(item)
             THEN DictItems(_flatten_dict_for_form(item, key))
             ELSE <<<<key, item>>>>)
            \o FlattenList(v, new_key, i + 1)

\* The body of "for k, v in d.items()" from the i-th item on: the pairs it
\* adds to items.
FlattenEntries(d, parent_key, i) ==
    IF i > Len(d.keys) THEN <<>>
    ELSE LET k == d.keys[i]
             v == d.vals[i]
             new_key == IF parent_key # <<>>
                        THEN parent_key \o <<"[">> \o k \o <<"]">>
                        ELSE k
         IN (IF IsDict(v) THEN DictItems(_flatten_dict_for_form(v, new_key))
             ELSE IF IsList(v) THEN FlattenList(v, new_key, 1)
             ELSE <<<<new_key, v>>>>)
            \o FlattenEntries(d, parent_key, i + 1)

_flatten_dict_for_form(d, parent_key) == dict(FlattenEntries(d, parent_key, 1))

\* parse_form_to_dict(body): a single value stands alone, several stay a list.
parse_form_to_dict(b) ==
    LET parsed_qs == parse_qs(b)
    IN Return(Dict(parsed_qs.keys,
                   [i \in 1..Len(parsed_qs.keys) |->
                       IF Len(parsed_qs.vals[i].vals) = 1
                       THEN parsed_qs.vals[i].vals[1]
                       ELSE parsed_qs.vals[i]]))

\* format_dict_to_form(data)
format_dict_to_form(d) ==
    IF ~IsDict(d)
    THEN Raise("TypeError", <<"Form conversion requires dictionary input.", <<>>>>)
    ELSE Return(urlencode(_flatten_dict_for_form(d, <<>>)))

-----------------------------------------------------------------------------
(* xml.etree.ElementTree and xml.dom.minidom                                *)
(*                                                                         *)
(* An element is [tag, text, kids]: its tag (ElementTree writes a          *)
(* namespaced tag as {uri}local), the text before its first child (None    *)
(* and '' are both <<>>) and its child elements.  The tail of an element   *)
(* is never read by the converter and is not kept.                         *)

Element(tag, txt, kids) == [tag |-> tag, text |-> txt, kids |-> kids]

\* ET.SubElement(parent, tag), with the new element already filled in.
SubElement(parent, child) == [parent EXCEPT !.kids = Append(@, child)]

\* ElementTree's _escape_cdata
EscapeCdataChar(c) ==
    CASE c = "&" -> <<"&", "a", "m", "p", ";">>
      [] c = "<" -> <<"&", "l", "t", ";">>
      [] c = ">" -> <<"&", "g", "t", ";">>
      [] OTHER   -> <<c>>

_escape_cdata(s) == Concat([i \in 1..Len(s) |-> EscapeCdataChar(s[i])])

\* ET.tostring(root, 'utf-8'): no declaration, no added whitespace, an element
\* without text and children written short.
RECURSIVE ET_tostring(_)
ET_tostring(e) ==
    IF e.text = <<>> /\ e.kids = <<>>
    THEN <<"<">> \o e.tag \o <<" ", "/", ">">>
    ELSE <<"<">> \o e.tag \o <<">">>
         \o _escape_cdata(e.text)
         \o Concat([i \in 1..Len(e.kids) |-> ET_tostring(e.kids[i])])
         \o <<"<", "/">> \o e.tag \o <<">">>

\* minidom's _write_data
WriteDataChar(c) ==
    CASE c = "&"  -> <<"&", "a", "m", "p", ";">>
      [] c = "<"  -> <<"&", "l", "t", ";">>
      [] c = "\"" -> <<"&", "q", "u", "o", "t", ";">>
      [] c = ">"  -> <<"&", "g", "t", ";">>
      [] OTHER    -> <<c>>

_write_data(s) == Concat([i \in 1..Len(s) |-> WriteDataChar(s[i])])

\* minidom's Element.writexml(writer, indent, addindent="  ", newl="\n"): an
\* element whose only child node is its text is written on one line, any other
\* content one node per line, indented two more spaces.
RECURSIVE writexml(_, _)
writexml(e, indent) ==
    IF e.text = <<>> /\ e.kids = <<>>
    THEN indent \o <<"<">> \o e.tag \o <<"/", ">", "\n">>
    ELSE IF e.kids = <<>>
    THEN indent \o <<"<">> \o e.tag \o <<">">> \o _write_data(e.text)
         \o <<"<", "/">> \o e.tag \o <<">", "\n">>
    ELSE indent \o <<"<">> \o e.tag \o <<">", "\n">>
         \o (IF e.text = <<>> THEN <<>>
             ELSE _write_data(indent \o <<" ", " ">> \o e.text \o <<"\n">>))
         \o Concat([i \in 1..Len(e.kids) |-> writexml(e.kids[i], indent \o <<" ", " ">>)])
         \o indent \o <<"<", "/">> \o e.tag \o <<">", "\n">>

\* Document.toprettyxml(indent="  ")
toprettyxml(e) ==
    <<"<", "?", "x", "m", "l", " ", "v", "e", "r", "s", "i", "o", "n", "=",
      "\"", "1", ".", "0", "\"", " ", "?", ">", "\n">> \o writexml(e, <<>>)

-----------------------------------------------------------------------------
(* The XML parser (expat, behind ET.fromstring and minidom.parseString).   *)
(* It reads an optional XML declaration, elements without attributes,      *)
(* character data, the five predefined entities and decimal character      *)
(* references; a literal carriage return is normalised to a line feed, a   *)
(* character reference is not.  Anything else is not well-formed here.     *)

XmlFail == [ok |-> FALSE, node |-> Element(<<>>, <<>>, <<>>), i |-> 0]

XmlOk(e, i) == [ok |-> TRUE, node |-> e, i |-> i]

IsNameStart(c) == c \in UpperLetters \cup LowerLetters \cup {"_", ":"}

IsNameChar(c) == IsNameStart(c) \/ c \in Digits \cup {"-", "."}

\* The position after the run of name characters that starts at i.
RECURSIVE XmlNameEnd(_, _)
XmlNameEnd(s, i) == IF i <= Len(s) /\ IsNameChar(s[i]) THEN XmlNameEnd(s, i + 1) ELSE i

\* The position after the run of whitespace that starts at i.
RECURSIVE XmlSkip(_, _)
XmlSkip(s, i) == IF i <= Len(s) /\ IsSpace(s[i]) THEN XmlSkip(s, i + 1) ELSE i

\* The first position at or after i where p starts, 0 when there is none.
RECURSIVE Find(_, _, _)
Find(s, i, p) ==
    IF i + Len(p) - 1 > Len(s) THEN 0
    ELSE IF StartsWith(s, i, p) THEN i
    ELSE Find(s, i + 1, p)

\* The value of a run of decimal digits.
RECURSIVE DigitsVal(_)
DigitsVal(ds) ==
    IF ds = <<>> THEN 0
    ELSE 10 * DigitsVal(SubSeq(ds, 1, Len(ds) - 1)) + (Ord(ds[Len(ds)]) - 48)

\* The reference that starts with the "&" at i: [ok, c, i], c its character.
XmlReference(s, i) ==
    LET semi == Find(s, i, <<";">>)
        name == SubSeq(s, i + 1, semi - 1)
        bad == [ok |-> FALSE, c |-> "", i |-> 0]
        is(c) == [ok |-> TRUE, c |-> c, i |-> semi + 1]
    IN IF semi = 0 THEN bad
       ELSE CASE name = <<"a", "m", "p">> -> is("&")
              [] name = <<"l", "t">> -> is("<")
              [] name = <<"g", "t">> -> is(">")
              [] name = <<"q", "u", "o", "t">> -> is("\"")
              [] name = <<"a", "p", "o", "s">> -> is("'")
              [] /\ Len(name) >= 2
                 /\ name[1] = "#"
                 /\ \A k \in 2..Len(name) : name[k] \in Digits
                 /\ Chr(DigitsVal(Tail(name))) # "" -> is(Chr(DigitsVal(Tail(name))))
              [] OTHER -> bad

RECURSIVE XmlElement(_, _)
RECURSIVE XmlContent(_, _, _, _, _)

\* The content of the element tag from position i to its end tag.  Character
\* data before the first child is the element's text; later data is tail.
XmlContent(s, i, tag, txt, kids) ==
    IF i > Len(s) THEN XmlFail
    ELSE IF StartsWith(s, i, <<"<", "/">>)
    THEN LET j == XmlNameEnd(s, i + 2)
             k == XmlSkip(s, j)
         IN IF SubSeq(s, i + 2, j - 1) = tag /\ k <= Len(s) /\ s[k] = ">"
            THEN XmlOk(Element(tag, txt, kids), k + 1)
            ELSE XmlFail
    ELSE IF s[i] = "<"
    THEN LET c == XmlElement(s, i)
         IN IF c.ok THEN XmlContent(s, c.i, tag, txt, Append(kids, c.node))
            ELSE XmlFail
    ELSE IF s[i] = "&"
    THEN LET r == XmlReference(s, i)
         IN IF r.ok
            THEN XmlContent(s, r.i, tag, IF kids = <<>> THEN Append(txt, r.c) ELSE txt, kids)
            ELSE XmlFail
    ELSE LET c == IF s[i] = "\r" THEN "\n" ELSE s[i]
             j == IF s[i] = "\r" /\ i < Len(s) /\ s[i + 1] = "\n" THEN i + 2 ELSE i + 1
         IN XmlContent(s, j, tag, IF kids = <<>> THEN Append(txt, c) ELSE txt, kids)

\* The element whose start tag (or empty-element tag) begins with the "<" at i.
XmlElement(s, i) ==
    IF i + 1 > Len(s) \/ s[i] # "<" \/ ~IsNameStart(s[i + 1]) THEN XmlFail
    ELSE LET j == XmlNameEnd(s, i + 1)
             tag == SubSeq(s, i + 1, j - 1)
             k == XmlSkip(s, j)
         IN IF k > Len(s) THEN XmlFail
            ELSE IF s[k] = ">" THEN XmlContent(s, k + 1, tag, <<>>, <<>>)
            ELSE IF StartsWith(s, k, <<"/", ">">>) THEN XmlOk(Element(tag, <<>>, <<>>), k + 2)
            ELSE XmlFail

\* A whole document: the declaration if there is one, the root element, and
\* nothing but whitespace around it.
XmlDocument(s) ==
    LET decl == StartsWith(s, 1, <<"<", "?", "x", "m", "l">>)
        declEnd == Find(s, 1, <<"?", ">">>)
        start == IF decl THEN XmlSkip(s, declEnd + 2) ELSE XmlSkip(s, 1)
        r == XmlElement(s, start)
    IN IF (decl /\ declEnd = 0) \/ ~r.ok \/ XmlSkip(s, r.i) <= Len(s)
       THEN XmlFail
       ELSE r

\* ET.fromstring(body): the root element, or ET.ParseError.
ET_fromstring(s) ==
    LET r == XmlDocument(s)
    IN IF r.ok THEN Return(r.node) ELSE Raise("ParseError", <<"not well-formed", <<>>>>)

\* minidom.parseString(rough_string): the document, or ExpatError.
minidom_parseString(s) ==
    LET r == XmlDocument(s)
    IN IF r.ok THEN Return(r.node) ELSE Raise("ExpatError", <<"not well-formed", <<>>>>)

-----------------------------------------------------------------------------
(* The XML adapter *)

\* re.sub(r'\{.*\}', '', tag): what lies between the first "{" and the last
\* "}" after it is removed with them.
StripNamespace(tag) ==
    LET opens == {i \in 1..Len(tag) : tag[i] = "{"}
        closes == {i \in 1..Len(tag) : tag[i] = "}"}
    IN IF \E i \in opens : \E j \in closes : i < j
       THEN LET i == CHOOSE a \in opens : \A b \in opens : a <= b
                j == CHOOSE a \in closes : \A b \in closes : b <= a
            IN SubSeq(tag, 1, i - 1) \o From(tag, j + 1)
       ELSE tag

\* A tag met again puts the entry it had and the new value in a list of two.
XmlAddChildPairwise(res, tag, child_data) ==
    IF DictHas(res, tag)
    THEN DictSet(res, tag, List(<<DictGet(res, tag), child_data>>))
    ELSE DictSet(res, tag, child_data)

\* The if/else at the end of the loop body of _xml_to_dict_recursive: a tag met
\* again turns its entry into a list (once) and appends to it.
XmlAddChild(res, tag, child_data) ==
    IF DictHas(res, tag)
    THEN LET old == DictGet(res, tag)
             lst == IF ~IsList(old) THEN List(<<old>>) ELSE old
         IN DictSet(res, tag, List(Append(lst.vals, child_data)))
    ELSE DictSet(res, tag, child_data)

RECURSIVE _xml_to_dict_recursive(_)
RECURSIVE XmlChildren(_, _, _)

\* "for child in node" from the i-th child on.
XmlChildren(n, i, res) ==
    IF i > Len(n.kids) THEN res
    ELSE XmlChildren(n, i + 1,
                     XmlAddChild(res,
                                 StripNamespace(n.kids[i].tag),
                                 _xml_to_dict_recursive(n.kids[i])))

_xml_to_dict_recursive(n) ==
    IF n.text # <<>> /\ strip(n.text) # <<>> /\ n.kids = <<>>
    THEN StrVal(strip(n.text))
    ELSE XmlChildren(n, 1, Dict(<<>>, <<>>))

\* The dict parse_xml_to_dict builds from the parsed root.
XmlRootToDict(root) ==
    Dict(<<StripNamespace(root.tag)>>, <<_xml_to_dict_recursive(root)>>)

\* parse_xml_to_dict(body)
parse_xml_to_dict(b) ==
    LET root == ET_fromstring(b)
    IN IF Returned(root) THEN Return(XmlRootToDict(root.val))
       ELSE Raise("ValueError", <<"Invalid XML format", <<>>>>)

RECURSIVE _dict_to_xml_recursive(_, _)
RECURSIVE XmlAddItems(_, _, _, _)
RECURSIVE XmlAddEntries(_, _, _)

\* "for item in value" from the i-th item on: one sub-element named key each.
XmlAddItems(value, key, i, root_element) ==
    IF i > Len(value.vals) THEN root_element
    ELSE XmlAddItems(value, key, i + 1,
                     SubElement(root_element,
                                _dict_to_xml_recursive(value.vals[i],
                                                       Element(key, <<>>, <<>>))))

\* "for key, value in data.items()" from the i-th item on.
XmlAddEntries(d, i, root_element) ==
    IF i > Len(d.keys) THEN root_element
    ELSE XmlAddEntries(d, i + 1,
                       IF IsList(d.vals[i])
                       THEN XmlAddItems(d.vals[i], d.keys[i], 1, root_element)
                       ELSE SubElement(root_element,
                                       _dict_to_xml_recursive(d.vals[i],
                                                              Element(d.keys[i], <<>>, <<>>))))

\* _dict_to_xml_recursive(data, root_element): the element after the call.
_dict_to_xml_recursive(d, root_element) ==
    IF IsDict(d) THEN XmlAddEntries(d, 1, root_element)
    ELSE [root_element EXCEPT !.text = str(d)]

\* format_dict_to_xml(data)
format_dict_to_xml(d) ==
    IF ~IsDict(d) \/ Len(d.keys) # 1
    THEN Raise("TypeError",
               <<"XML conversion requires a dictionary with a single root key.", <<>>>>)
    ELSE LET root_key == d.keys[1]
             root == _dict_to_xml_recursive(d.vals[1], Element(root_key, <<>>, <<>>))
             rough_string == ET_tostring(root)
             reparsed == minidom_parseString(rough_string)
         IN IF Returned(reparsed) THEN Return(toprettyxml(reparsed.val))
            ELSE reparsed

-----------------------------------------------------------------------------
(* The JSON and plain adapters *)

\* parse_json_to_dict(body)
parse_json_to_dict(b) ==
    LET r == json_loads(b)
    IN IF Returned(r) THEN r ELSE Raise("ValueError", <<"Invalid JSON format", <<>>>>)

\* parse_plain_to_dict(body)
parse_plain_to_dict(b) == Return(Dict(<<<<"t", "e", "x", "t">>>>, <<StrVal(b)>>))

\* format_dict_to_json(data)
format_dict_to_json(d) == Return(json_dumps(d))

\* The plain formatter with str() where the code calls json.dumps.
format_dict_to_plain_str(d) ==
    IF IsDict(d) /\ DictHas(d, <<"t", "e", "x", "t">>)
    THEN Return(str(DictGet(d, <<"t", "e", "x", "t">>)))
    ELSE Return(str(d))

\* format_dict_to_plain(data)
format_dict_to_plain(d) ==
    IF IsDict(d) /\ DictHas(d, <<"t", "e", "x", "t">>)
    THEN Return(str(DictGet(d, <<"t", "e", "x", "t">>)))
    ELSE Return(json_dumps(d))

-----------------------------------------------------------------------------
(* The registry and convert_body *)

JSON == <<"j", "s", "o", "n">>

FORM == <<"f", "o", "r", "m">>

XML == <<"x", "m", "l">>

PLAIN == <<"p", "l", "a", "i", "n">>

\* The registry with the label the --help text prints for xml.
RegistryOfHelpText ==
    [n \in {JSON, FORM, XML, PLAIN} |->
        CASE n = JSON ->
                [header |-> <<"a", "p", "p", "l", "i", "c", "a", "t", "i", "o", "n", "/",
                              "j", "s", "o", "n">>,
                 parser |-> "parse_json_to_dict", formatter |-> "format_dict_to_json"]
          [] n = FORM ->
                [header |-> <<"a", "p", "p", "l", "i", "c", "a", "t", "i", "o", "n", "/",
                              "x", "-", "w", "w", "w", "-", "f", "o", "r", "m", "-",
                              "u", "r", "l", "e", "n", "c", "o", "d", "e", "d">>,
                 parser |-> "parse_form_to_dict", formatter |-> "format_dict_to_form"]
          [] n = XML ->
                [header |-> <<"a", "p", "p", "l", "i", "c", "a", "t", "i", "o", "n", "/",
                              "x", "m", "l">>,
                 parser |-> "parse_xml_to_dict", formatter |-> "format_dict_to_xml"]
          [] n = PLAIN ->
                [header |-> <<"t", "e", "x", "t", "/", "p", "l", "a", "i", "n">>,
                 parser |-> "parse_plain_to_dict", formatter |-> "format_dict_to_plain"]]

\* The SUPPORTED_TYPES literal.
Registry ==
    [n \in {JSON, FORM, XML, PLAIN} |->
        CASE n = JSON ->
                [header |-> <<"a", "p", "p", "l", "i", "c", "a", "t", "i", "o", "n", "/",
                              "j", "s", "o", "n">>,
                 parser |-> "parse_json_to_dict", formatter |-> "format_dict_to_json"]
          [] n = FORM ->
                [header |-> <<"a", "p", "p", "l", "i", "c", "a", "t", "i", "o", "n", "/",
                              "x", "-", "w", "w", "w", "-", "f", "o", "r", "m", "-",
                              "u", "r", "l", "e", "n", "c", "o", "d", "e", "d">>,
                 parser |-> "parse_form_to_dict", formatter |-> "format_dict_to_form"]
          [] n = XML ->
                [header |-> <<"t", "e", "x", "t", "/", "x", "m", "l">>,
                 parser |-> "parse_xml_to_dict", formatter |-> "format_dict_to_xml"]
          [] n = PLAIN ->
                [header |-> <<"t", "e", "x", "t", "/", "p", "l", "a", "i", "n">>,
                 parser |-> "parse_plain_to_dict", formatter |-> "format_dict_to_plain"]]

\* parser(body), for the parser a registry entry names.
CallParser(f, b) ==
    CASE f = "parse_json_to_dict"  -> parse_json_to_dict(b)
      [] f = "parse_form_to_dict"  -> parse_form_to_dict(b)
      [] f = "parse_xml_to_dict"   -> parse_xml_to_dict(b)
      [] f = "parse_plain_to_dict" -> parse_plain_to_dict(b)

\* formatter(intermediate_dict), for the formatter a registry entry names.
CallFormatter(f, d) ==
    CASE f = "format_dict_to_json"  -> format_dict_to_json(d)
      [] f = "format_dict_to_form"  -> format_dict_to_form(d)
      [] f = "format_dict_to_xml"   -> format_dict_to_xml(d)
      [] f = "format_dict_to_plain" -> format_dict_to_plain(d)

\* source_type.lower().strip()
Normalise(name) == strip(lower(name))

\* The two membership tests in the other order, target first.
CheckSupportedTargetFirst(registry, src, tgt) ==
    IF tgt \notin DOMAIN registry
    THEN Raise("ValueError", <<"Unsupported target type", tgt>>)
    ELSE IF src \notin DOMAIN registry
    THEN Raise("ValueError", <<"Unsupported source type", src>>)
    ELSE Unset

\* The two membership tests of convert_body, source first: the exception the
\* first failing one raises, Unset when both names are registered.
CheckSupported(registry, src, tgt) ==
    IF src \notin DOMAIN registry
    THEN Raise("ValueError", <<"Unsupported source type", src>>)
    ELSE IF tgt \notin DOMAIN registry
    THEN Raise("ValueError", <<"Unsupported target type", tgt>>)
    ELSE Unset

\* f"Content-Type: {target_header}"
HeaderLine(header) ==
    <<"C", "o", "n", "t", "e", "n", "t", "-", "T", "y", "p", "e", ":", " ">> \o header

\* convert_body(body, source_type, target_type) run from start to end.
convert_body(b, src, tgt) ==
    LET s == Normalise(src)
        t == Normalise(tgt)
        unsupported == CheckSupported(Registry, s, t)
    IN IF unsupported # Unset THEN unsupported
       ELSE LET d == CallParser(Registry[s].parser, b)
            IN IF ~Returned(d) THEN d
               ELSE LET c == CallFormatter(Registry[t].formatter, d.val)
                    IN IF ~Returned(c) THEN c
                       ELSE Return(<<c.val, HeaderLine(Registry[t].header)>>)

-----------------------------------------------------------------------------
(* Calls of convert_body, each with locals of its own, their steps         *)
(* interleaved.                                                            *)

\* How many calls of convert_body run side by side.
NumCalls == 2

Calls == 1..NumCalls

\* A caller passes body b and the names src and tgt.
Call(p, b, src, tgt) ==
    /\ pc[p] = "idle"
    /\ args' = [args EXCEPT ![p] = [body |-> b, source_type |-> src, target_type |-> tgt]]
    /\ body' = [body EXCEPT ![p] = b]
    /\ source_type' = [source_type EXCEPT ![p] = src]
    /\ target_type' = [target_type EXCEPT ![p] = tgt]
    /\ pc' = [pc EXCEPT ![p] = "resolve"]
    /\ UNCHANGED <<SUPPORTED_TYPES, intermediate_dict, target_header, converted_body,
                   result, parser_calls>>
    /\ UNCHANGED pureVars

\* The two names are normalised and looked up, source first.
Resolve(p) ==
    /\ pc[p] = "resolve"
    /\ LET s == Normalise(source_type[p])
           t == Normalise(target_type[p])
           unsupported == CheckSupported(SUPPORTED_TYPES, s, t)
       IN /\ source_type' = [source_type EXCEPT ![p] = s]
          /\ target_type' = [target_type EXCEPT ![p] = t]
          /\ IF unsupported # Unset
             THEN /\ result' = [result EXCEPT ![p] = unsupported]
                  /\ pc' = [pc EXCEPT ![p] = "raised"]
             ELSE /\ result' = result
                  /\ pc' = [pc EXCEPT ![p] = "parse"]
    /\ UNCHANGED <<SUPPORTED_TYPES, args, body, intermediate_dict, target_header,
                   converted_body, parser_calls>>
    /\ UNCHANGED pureVars

\* Step 1 with intermediate_dict a module-level name that every call assigns.
ParseShared(p) ==
    /\ pc[p] = "parse"
    /\ LET d == CallParser(SUPPORTED_TYPES[source_type[p]].parser, body[p])
       IN /\ parser_calls' = [parser_calls EXCEPT ![p] = @ + 1]
          /\ IF Returned(d)
             THEN /\ intermediate_dict' = [q \in Calls |-> d.val]
                  /\ result' = result
                  /\ pc' = [pc EXCEPT ![p] = "format"]
             ELSE /\ intermediate_dict' = intermediate_dict
                  /\ result' = [result EXCEPT ![p] = d]
                  /\ pc' = [pc EXCEPT ![p] = "raised"]
    /\ UNCHANGED <<SUPPORTED_TYPES, args, body, source_type, target_type, target_header,
                   converted_body>>
    /\ UNCHANGED pureVars

\* Step 1: the source parser runs on the body; what it raises leaves the call.
Parse(p) ==
    /\ pc[p] = "parse"
    /\ LET d == CallParser(SUPPORTED_TYPES[source_type[p]].parser, body[p])
       IN /\ parser_calls' = [parser_calls EXCEPT ![p] = @ + 1]
          /\ IF Returned(d)
             THEN /\ intermediate_dict' = [intermediate_dict EXCEPT ![p] = d.val]
                  /\ result' = result
                  /\ pc' = [pc EXCEPT ![p] = "format"]
             ELSE /\ intermediate_dict' = intermediate_dict
                  /\ result' = [result EXCEPT ![p] = d]
                  /\ pc' = [pc EXCEPT ![p] = "raised"]
    /\ UNCHANGED <<SUPPORTED_TYPES, args, body, source_type, target_type, target_header,
                   converted_body>>
    /\ UNCHANGED pureVars

\* Step 2: the target formatter runs on intermediate_dict.
Format(p) ==
    /\ pc[p] = "format"
    /\ LET entry == SUPPORTED_TYPES[target_type[p]]
           c == CallFormatter(entry.formatter, intermediate_dict[p])
       IN /\ target_header' = [target_header EXCEPT ![p] = entry.header]
          /\ IF Returned(c)
             THEN /\ converted_body' = [converted_body EXCEPT ![p] = c.val]
                  /\ result' = result
                  /\ pc' = [pc EXCEPT ![p] = "return"]
             ELSE /\ converted_body' = converted_body
                  /\ result' = [result EXCEPT ![p] = c]
                  /\ pc' = [pc EXCEPT ![p] = "raised"]
    /\ UNCHANGED <<SUPPORTED_TYPES, args, body, source_type, target_type,
                   intermediate_dict, parser_calls>>
    /\ UNCHANGED pureVars

\* The return statement.
Finish(p) ==
    /\ pc[p] = "return"
    /\ result' = [result EXCEPT ![p] =
                      Return(<<converted_body[p], HeaderLine(target_header[p])>>)]
    /\ pc' = [pc EXCEPT ![p] = "returned"]
    /\ UNCHANGED <<SUPPORTED_TYPES, args, body, source_type, target_type,
                   intermediate_dict, target_header, converted_body, parser_calls>>
    /\ UNCHANGED pureVars

\* The state of the module once loaded, no call made yet.
InitConv ==
    /\ SUPPORTED_TYPES = Registry
    /\ args = [p \in Calls |-> [body |-> <<>>, source_type |-> <<>>, target_type |-> <<>>]]
    /\ pc = [p \in Calls |-> "idle"]
    /\ body = [p \in Calls |-> <<>>]
    /\ source_type = [p \in Calls |-> <<>>]
    /\ target_type = [p \in Calls |-> <<>>]
    /\ intermediate_dict = [p \in Calls |-> None]
    /\ target_header = [p \in Calls |-> <<>>]
    /\ converted_body = [p \in Calls |-> <<>>]
    /\ result = [p \in Calls |-> Unset]
    /\ parser_calls = [p \in Calls |-> 0]

\* No parser or formatter is being called directly.
InitNoPure ==
    /\ step = "none"
    /\ node = Element(<<>>, <<>>, <<>>)
    /\ data = None
    /\ flattened_data = None
    /\ text = Unset
    /\ parsed = Unset
    /\ parsed_again = Unset
    /\ json_text = Unset

\* Bodies a caller passes: a JSON object, a JSON array, an XML document, a
\* form string with a repeated key, and text that is none of these.
BodyJsonObject == <<"{", "\"", "a", "\"", ":", " ", "\"", "x", "\"", "}">>

BodyJsonArray == <<"[", "1", ",", "\"", "x", "\"", "]">>

BodyXml == <<"<", "r", ">", "<", "i", ">", "a", "<", "/", "i", ">",
             "<", "i", ">", "b", "<", "/", "i", ">", "<", "/", "r", ">">>

BodyForm == <<"a", "=", "1", "&", "a", "=", "2", "&", "b", "=">>

BodyText == <<"h", "i", " ", "<">>

Bodies == {BodyJsonObject, BodyJsonArray, BodyXml, BodyForm, BodyText}

\* Format names a caller passes: registered ones, registered ones in another
\* case or with whitespace around them, and unregistered ones.
FormatNames ==
    {JSON, FORM, XML, PLAIN,
     <<" ", "J", "s", "O", "N", "\n">>, <<"\t", "X", "M", "L">>, <<"P", "l", "a", "i", "n", " ">>,
     <<"y", "a", "m", "l">>, <<"j", " ", "s", "o", "n">>, <<>>}

\* One call, with every body and every pair of names.
NextCall ==
    \/ \E b \in Bodies, src \in FormatNames, tgt \in FormatNames : Call(1, b, src, tgt)
    \/ Resolve(1)
    \/ Parse(1)
    \/ Format(1)
    \/ Finish(1)

InitCall == InitConv /\ InitNoPure

SpecCall == InitCall /\ [][NextCall]_vars

\* The inputs of the calls that run side by side.
ConcBodies == {BodyJsonObject, BodyXml}

ConcNames == {JSON, <<"\t", "X", "M", "L">>, <<"y", "a", "m", "l">>}

Next ==
    \E p \in Calls :
        \/ \E b \in ConcBodies, src \in ConcNames, tgt \in ConcNames : Call(p, b, src, tgt)
        \/ Resolve(p)
        \/ Parse(p)
        \/ Format(p)
        \/ Finish(p)

Init == InitConv /\ InitNoPure

Spec == Init /\ [][Next]_vars

-----------------------------------------------------------------------------
(* Bounded inputs for the parsers and the formatters called directly *)

\* The most nodes (scalars, dicts, lists; elements) an input has.
MaxNodes == 4

\* The most key=value fields a form string has.
MaxFields == 3

\* The sequences of n distinct keys.
RECURSIVE KeySeqs(_, _)
KeySeqs(K, n) ==
    IF n = 0 THEN {<<>>}
    ELSE UNION {{Append(ks, k) : k \in K \ {ks[i] : i \in 1..Len(ks)}} : ks \in KeySeqs(K, n - 1)}

RECURSIVE ValuesOfSize(_, _, _)
RECURSIVE ValueSeqs(_, _, _)

\* The non-empty sequences of values with m nodes in all.
ValueSeqs(m, K, S) ==
    UNION {{<<v>> \o f : v \in ValuesOfSize(k, K, S),
                         f \in IF m = k THEN {<<>>} ELSE ValueSeqs(m - k, K, S)}
           : k \in 1..m}

\* The values with exactly n nodes, keys from K, scalars from S.
ValuesOfSize(n, K, S) ==
    IF n = 1 THEN S \cup {Dict(<<>>, <<>>), List(<<>>)}
    ELSE {List(f) : f \in ValueSeqs(n - 1, K, S)}
         \cup UNION {{Dict(ks, f) : ks \in KeySeqs(K, Len(f))} : f \in ValueSeqs(n - 1, K, S)}

Values(K, S) == UNION {ValuesOfSize(n, K, S) : n \in 1..MaxNodes}

RECURSIVE TreesOfSize(_, _, _)
RECURSIVE TreeSeqs(_, _, _)

TreeSeqs(m, Leaves, Inner) ==
    UNION {{<<e>> \o f : e \in TreesOfSize(k, Leaves, Inner),
                         f \in IF m = k THEN {<<>>} ELSE TreeSeqs(m - k, Leaves, Inner)}
           : k \in 1..m}

\* The element trees with exactly n elements: an element without children is
\* one of Leaves, one with children has the tag and text of one of Inner.
TreesOfSize(n, Leaves, Inner) ==
    IF n = 1 THEN Leaves
    ELSE {Element(e.tag, e.text, kids) : e \in Inner, kids \in TreeSeqs(n - 1, Leaves, Inner)}

Trees(Leaves, Inner) == UNION {TreesOfSize(n, Leaves, Inner) : n \in 1..MaxNodes}

-----------------------------------------------------------------------------
(* The form adapter called directly *)

FormKeys == {<<"a">>, <<"b">>}

FormScalars == {StrVal(<<>>), StrVal(<<"x">>), StrVal(<<"y", " ", "&", "=", "[">>), IntVal(<<"7">>)}

FormValues == Values(FormKeys, FormScalars)

FieldValues == {<<>>, <<"1">>, <<"2", "+">>}

\* The sequences of at most MaxFields <<key, value>> fields.
FieldSeqs ==
    UNION {[1..n -> {<<k, v>> : k \in FormKeys \cup {<<"u", "[", "n", "]">>}, v \in FieldValues}]
           : n \in 0..MaxFields}

\* The form string of a sequence of fields: key=value, percent-encoded, joined by &.
FormString(fields) ==
    join(<<"&">>, [i \in 1..Len(fields) |->
                      quote_plus(fields[i][1]) \o <<"=">> \o quote_plus(fields[i][2])])

\* The fields as a value: a list of [key, value] lists.
FieldsValue(fields) ==
    List([i \in 1..Len(fields) |-> List(<<StrVal(fields[i][1]), StrVal(fields[i][2])>>)])

\* format_dict_to_form is called on data.
FormatForm ==
    /\ step = "format"
    /\ flattened_data' = IF IsDict(data) THEN _flatten_dict_for_form(data, <<>>) ELSE None
    /\ text' = format_dict_to_form(data)
    /\ step' = IF IsDict(data) THEN "formatted" ELSE "raised"
    /\ UNCHANGED <<node, data, parsed, parsed_again, json_text>>
    /\ UNCHANGED convVars

\* parse_form_to_dict is called on a form string: one given, or one just formatted.
ParseForm ==
    /\ step \in {"parse", "formatted"}
    /\ parsed' = parse_form_to_dict(text.val)
    /\ step' = IF step = "formatted" THEN "round_trip" ELSE "parsed"
    /\ UNCHANGED <<node, data, flattened_data, text, parsed_again, json_text>>
    /\ UNCHANGED convVars

InitForm ==
    /\ InitConv
    /\ node = Element(<<>>, <<>>, <<>>)
    /\ flattened_data = None
    /\ parsed = Unset
    /\ parsed_again = Unset
    /\ json_text = Unset
    /\ \/ /\ step = "format"
          /\ data \in FormValues
          /\ text = Unset
       \/ /\ step = "parse"
          /\ \E fields \in FieldSeqs :
                /\ data = FieldsValue(fields)
                /\ text = Return(FormString(fields))

NextForm == FormatForm \/ ParseForm

SpecForm == InitForm /\ [][NextForm]_vars

-----------------------------------------------------------------------------
(* The XML adapter called directly *)

\* Elements without children, as ET.fromstring gives them: two local names,
\* one of them also in a namespace; no text, blank text, padded text, and text
\* with a carriage return inside (written &#13; in a document).
XmlLeaves ==
    {Element(<<"a">>, <<>>, <<>>),
     Element(<<"a">>, <<" ", "x", "\n">>, <<>>),
     Element(<<"{", "u", "}", "a">>, <<"x">>, <<>>),
     Element(<<"{", "u", "}", "a">>, <<"y", "\r", "z">>, <<>>),
     Element(<<"b">>, <<" ">>, <<>>),
     Element(<<"b">>, <<"z">>, <<>>)}

\* The tag and text of elements with children: the text before the first
\* child is blank, missing, or not blank.
XmlInner ==
    {Element(<<"a">>, <<"\n", " ">>, <<>>),
     Element(<<"{", "u", "}", "a">>, <<>>, <<>>),
     Element(<<"b">>, <<"t">>, <<>>)}

XmlTrees == Trees(XmlLeaves, XmlInner)

XmlKeys == {<<"r">>, <<"a", " ", "b">>}

XmlScalars == {StrVal(<<>>), StrVal(<<"x">>), IntVal(<<"7">>)}

XmlValues == Values(XmlKeys, XmlScalars)

\* parse_xml_to_dict from the root element ET.fromstring returned; the dict it
\* returns is then the formatter's argument.
ParseXmlTree ==
    /\ step = "parse"
    /\ parsed' = Return(XmlRootToDict(node))
    /\ data' = XmlRootToDict(node)
    /\ step' = "parsed"
    /\ UNCHANGED <<node, flattened_data, text, parsed_again, json_text>>
    /\ UNCHANGED convVars

\* format_dict_to_xml is called on data: a value given, or one just parsed.
FormatXml ==
    /\ step \in {"format", "parsed"}
    /\ text' = format_dict_to_xml(data)
    /\ step' = IF Returned(format_dict_to_xml(data))
               THEN (IF step = "parsed" THEN "parsed_formatted" ELSE "formatted")
               ELSE (IF step = "parsed" THEN "parsed_raised" ELSE "raised")
    /\ UNCHANGED <<node, data, flattened_data, parsed, parsed_again, json_text>>
    /\ UNCHANGED convVars

\* parse_xml_to_dict is called on the text the formatter returned.
ReparseXml ==
    /\ step \in {"formatted", "parsed_formatted"}
    /\ parsed_again' = parse_xml_to_dict(text.val)
    /\ step' = IF step = "formatted" THEN "reparsed" ELSE "parsed_reparsed"
    /\ UNCHANGED <<node, data, flattened_data, text, parsed, json_text>>
    /\ UNCHANGED convVars

InitXml ==
    /\ InitConv
    /\ flattened_data = None
    /\ text = Unset
    /\ parsed = Unset
    /\ parsed_again = Unset
    /\ json_text = Unset
    /\ \/ /\ step = "parse"
          /\ node \in XmlTrees
          /\ data = None
       \/ /\ step = "format"
          /\ node = Element(<<>>, <<>>, <<>>)
          /\ data \in XmlValues

NextXml == ParseXmlTree \/ FormatXml \/ ReparseXml

SpecXml == InitXml /\ [][NextXml]_vars

\* The parser alone, on every tree.
InitXmlParse ==
    /\ InitConv
    /\ step = "parse"
    /\ node \in XmlTrees
    /\ data = None
    /\ flattened_data = None
    /\ text = Unset
    /\ parsed = Unset
    /\ parsed_again = Unset
    /\ json_text = Unset

NextXmlParse == ParseXmlTree

SpecXmlParse == InitXmlParse /\ [][NextXmlParse]_vars

-----------------------------------------------------------------------------
(* The plain and JSON formatters called directly *)

PlainKeys == {<<"t", "e", "x", "t">>, <<"a">>}

PlainScalars == {StrVal(<<>>), StrVal(<<"t", "e", "x", "t">>), StrVal(<<"q", "\"">>), IntVal(<<"7">>)}

PlainValues == Values(PlainKeys, PlainScalars)

\* format_dict_to_plain is called on data.
FormatPlain ==
    /\ step = "format"
    /\ text = Unset
    /\ text' = format_dict_to_plain(data)
    /\ UNCHANGED <<step, node, data, flattened_data, parsed, parsed_again, json_text>>
    /\ UNCHANGED convVars

\* format_dict_to_json is called on the same data.
FormatJson ==
    /\ step = "format"
    /\ json_text = Unset
    /\ json_text' = format_dict_to_json(data)
    /\ UNCHANGED <<step, node, data, flattened_data, text, parsed, parsed_again>>
    /\ UNCHANGED convVars

InitPlain ==
    /\ InitConv
    /\ step = "format"
    /\ node = Element(<<>>, <<>>, <<>>)
    /\ data \in PlainValues
    /\ flattened_data = None
    /\ text = Unset
    /\ parsed = Unset
    /\ parsed_again = Unset
    /\ json_text = Unset

NextPlain == FormatPlain \/ FormatJson

SpecPlain == InitPlain /\ [][NextPlain]_vars

-----------------------------------------------------------------------------
(* The form claims *)

\* The flattening rule as the specification states it: the <<bracket path,
\* scalar>> entries of v in iteration order.  Child key c under path p is p[c],
\* bare c at the root; element index i under path p is p[i]; the recursion ends
\* at scalars.
RECURSIVE BracketPathEntries(_, _, _)
BracketPathEntries(v, path, atRoot) ==
    IF IsDict(v)
    THEN Concat([i \in 1..Len(v.keys) |->
                    BracketPathEntries(v.vals[i],
                                       IF atRoot THEN v.keys[i]
                                       ELSE path \o <<"[">> \o v.keys[i] \o <<"]">>,
                                       FALSE)])
    ELSE IF IsList(v)
    THEN Concat([i \in 1..Len(v.vals) |->
                    BracketPathEntries(v.vals[i],
                                       path \o <<"[">> \o IntStr(i - 1) \o <<"]">>,
                                       FALSE)])
    ELSE <<<<path, v>>>>

\* C3: formatting an Object with format_dict_to_form and decoding the string
\* with parse_form_to_dict yields a flat mapping whose key set is exactly the
\* set of bracket paths of the Object, each leaf scalar (the empty string
\* included) kept exactly.
C3_FormRoundTrip ==
    step = "round_trip" =>
        LET entries == BracketPathEntries(data, <<>>, TRUE)
        IN /\ Returned(parsed)
           /\ {parsed.val.keys[i] : i \in 1..Len(parsed.val.keys)}
                  = {entries[i][1] : i \in 1..Len(entries)}
           /\ \A i \in 1..Len(entries) :
                  /\ DictHas(parsed.val, entries[i][1])
                  /\ DictGet(parsed.val, entries[i][1]) = StrVal(str(entries[i][2]))

\* C4: _flatten_dict_for_form gives a flat mapping whose values are all
\* Scalars (also for an Array directly inside an Array), one entry per leaf
\* scalar keyed by its bracket path, in iteration order; a top-level value that
\* is not an Object makes format_dict_to_form fail with TypeError.
C4_FlattenToScalars ==
    step \in {"formatted", "raised", "round_trip"} =>
        IF IsDict(data)
        THEN /\ Returned(text)
             /\ \A i \in 1..Len(flattened_data.vals) : IsScalar(flattened_data.vals[i])
             /\ DictItems(flattened_data) = BracketPathEntries(data, <<>>, TRUE)
        ELSE text.exc = "TypeError"

\* C5: parse_form_to_dict has an entry for every key of the form string
\* (values possibly empty): a key seen once maps to its value, a key seen
\* n >= 2 times to the Array of its n values in first-seen order; keys such as
\* u[n] are taken literally.
C5_FormParseEveryKey ==
    step = "parsed" =>
        /\ Returned(parsed)
        /\ \A i \in 1..Len(data.vals) :
              LET k == data.vals[i].vals[1].s
                  IsK(f) == f.vals[1].s = k
                  occ == SelectSeq(data.vals, IsK)
              IN /\ DictHas(parsed.val, k)
                 /\ DictGet(parsed.val, k)
                        = IF Len(occ) = 1 THEN occ[1].vals[2]
                          ELSE List([j \in 1..Len(occ) |-> occ[j].vals[2]])

-----------------------------------------------------------------------------
(* The engine claims *)

\* The four registered short names.
ShortNames == {JSON, FORM, XML, PLAIN}

\* A format name as it is matched: surrounding whitespace trimmed, lower-cased.
Matched(name) == lower(strip(name))

\* The failure for a short name that is not registered.
IsUnsupportedFormat(r) ==
    /\ r.exc = "ValueError"
    /\ r.msg[1] \in {"Unsupported source type", "Unsupported target type"}

\* C1: once the names of a call are resolved, an unknown source name (trimmed,
\* lower-cased) has made the call fail with the unsupported-format error naming
\* it, also when the target is unknown too; otherwise an unknown target name
\* has made it fail with the error naming the target; in both cases no parser
\* has run on the body.  A call whose names match registered names, whatever
\* their case and surrounding whitespace, does not fail with that error.
C1_UnsupportedFormatFailsFast ==
    pc[1] \notin {"idle", "resolve"} =>
        LET s == Matched(args[1].source_type)
            t == Matched(args[1].target_type)
        IN /\ s \notin ShortNames =>
                  /\ pc[1] = "raised"
                  /\ IsUnsupportedFormat(result[1])
                  /\ result[1].msg = <<"Unsupported source type", s>>
                  /\ parser_calls[1] = 0
           /\ (s \in ShortNames /\ t \notin ShortNames) =>
                  /\ pc[1] = "raised"
                  /\ IsUnsupportedFormat(result[1])
                  /\ result[1].msg = <<"Unsupported target type", t>>
                  /\ parser_calls[1] = 0
           /\ (s \in ShortNames /\ t \in ShortNames) =>
                  /\ ~IsUnsupportedFormat(result[1])
                  /\ pc[1] \in {"format", "return", "returned"} => parser_calls[1] = 1

\* C1: a call with a JSON body and two unknown names has failed.
C1_BothNamesUnknown ==
    /\ pc[1] = "raised"
    /\ args[1].body = BodyJsonObject
    /\ args[1].source_type = <<"y", "a", "m", "l">>
    /\ args[1].target_type = <<"j", " ", "s", "o", "n">>
    /\ IsUnsupportedFormat(result[1])

\* The wire media-type label of each short name.
MediaTypeLabel(name) ==
    CASE name = JSON  -> <<"a", "p", "p", "l", "i", "c", "a", "t", "i", "o", "n", "/",
                           "j", "s", "o", "n">>
      [] name = FORM  -> <<"a", "p", "p", "l", "i", "c", "a", "t", "i", "o", "n", "/",
                           "x", "-", "w", "w", "w", "-", "f", "o", "r", "m", "-",
                           "u", "r", "l", "e", "n", "c", "o", "d", "e", "d">>
      [] name = XML   -> <<"t", "e", "x", "t", "/", "x", "m", "l">>
      [] name = PLAIN -> <<"t", "e", "x", "t", "/", "p", "l", "a", "i", "n">>

\* The parser of each short name, applied to a body.
ParseAs(name, b) ==
    CASE name = JSON  -> parse_json_to_dict(b)
      [] name = FORM  -> parse_form_to_dict(b)
      [] name = XML   -> parse_xml_to_dict(b)
      [] name = PLAIN -> parse_plain_to_dict(b)

\* The formatter of each short name, applied to a value.
FormatAs(name, d) ==
    CASE name = JSON  -> format_dict_to_json(d)
      [] name = FORM  -> format_dict_to_form(d)
      [] name = XML   -> format_dict_to_xml(d)
      [] name = PLAIN -> format_dict_to_plain(d)

\* The first component of a returned pair is the target formatter's output on
\* the source parser's result.
FirstIsFormatted(p) ==
    LET s == Matched(args[p].source_type)
        t == Matched(args[p].target_type)
    IN /\ Returned(ParseAs(s, args[p].body))
       /\ result[p].val[1] = FormatAs(t, ParseAs(s, args[p].body).val).val

SameAsAlone(p) ==
    pc[p] \in {"returned", "raised"} =>
        result[p] = convert_body(args[p].body, args[p].source_type, args[p].target_type)

\* A step leaves the locals of every call but one as they were.
OneCallSteps ==
    \E p \in Calls : \A q \in Calls \ {p} :
        /\ intermediate_dict'[q] = intermediate_dict[q]
        /\ converted_body'[q] = converted_body[q]
        /\ target_header'[q] = target_header[q]
        /\ source_type'[q] = source_type[q]
        /\ target_type'[q] = target_type[q]
        /\ body'[q] = body[q]
        /\ result'[q] = result[q]
        /\ pc'[q] = pc[q]

\* C9: with the steps of the calls interleaved in any order, every call that
\* has ended holds the result or the error it gives when run alone, the
\* registry is always the one the module was loaded with, and every step
\* reads and writes the Intermediate Value and the other locals of one call
\* only.
C9_CallsDoNotInteract ==
    /\ [](\A p \in Calls : SameAsAlone(p))
    /\ [](SUPPORTED_TYPES = Registry)
    /\ [][OneCallSteps]_vars

\* C9: two calls hold different Intermediate Values at the same time, both
\* parsed and neither formatted yet.
C9_TwoCallsParsed ==
    /\ pc[1] = "format"
    /\ pc[2] = "format"
    /\ intermediate_dict[1] # intermediate_dict[2]
    /\ IsDict(intermediate_dict[1])
    /\ IsDict(intermediate_dict[2])

-----------------------------------------------------------------------------
(* The XML claims *)

\* The local name of a tag: what follows the namespace, when it has one.
LocalName(tag) ==
    IF tag # <<>> /\ tag[1] = "{"
    THEN From(tag, 1 + CHOOSE j \in 1..Len(tag) :
                         tag[j] = "}" /\ \A k \in (j + 1)..Len(tag) : tag[k] # "}")
    ELSE tag

\* The converted value of an element with repeated tags aggregated: the
\* trimmed text of a childless element with text that is not blank, otherwise
\* an Object with one key per local name among the children, in the order the
\* names first occur, mapped to the converted value of the only child of that
\* name, or to the Array of the converted values of all of them in document
\* order.
RECURSIVE AggregatedValue(_)
AggregatedValue(e) ==
    IF e.kids = <<>> /\ strip(e.text) # <<>>
    THEN StrVal(strip(e.text))
    ELSE LET n == Len(e.kids)
             name == [i \in 1..n |-> LocalName(e.kids[i].tag)]
             IsFirst(i) == \A j \in 1..(i - 1) : name[j] # name[i]
             firsts == SelectSeq([i \in 1..n |-> i], IsFirst)
             ValueOf(t) ==
                 LET Named(k) == LocalName(k.tag) = t
                     occ == SelectSeq(e.kids, Named)
                 IN IF Len(occ) = 1 THEN AggregatedValue(occ[1])
                    ELSE List([j \in 1..Len(occ) |-> AggregatedValue(occ[j])])
         IN Dict([i \in 1..Len(firsts) |-> name[firsts[i]]],
                 [i \in 1..Len(firsts) |-> ValueOf(name[firsts[i]])])

\* C6: in the value parsed from an element tree, every element with n >= 2
\* children of one local name (namespace stripped) maps that name to one flat
\* Array of the n converted values in document order, and maps a local name
\* that exactly one child has to that child's converted value.
C6_RepeatedTagsAggregated ==
    step = "parsed" =>
        /\ Returned(parsed)
        /\ parsed.val = Dict(<<LocalName(node.tag)>>, <<AggregatedValue(node)>>)

\* C6: a root whose three children have the same local name, one of them in a
\* namespace, has been parsed into an Array of three items.
C6_ThreeOccurrences ==
    /\ step = "parsed"
    /\ Len(node.kids) = 3
    /\ \A i \in 1..3 : LocalName(node.kids[i].tag) = <<"a">>
    /\ \E i \in 1..3 : node.kids[i].tag # <<"a">>
    /\ IsList(DictGet(parsed.val.vals[1], <<"a">>))
    /\ Len(DictGet(parsed.val.vals[1], <<"a">>).vals) = 3

\* C7: format_dict_to_xml fails with TypeError for a value that is not an
\* Object or is an Object with no key or with two or more, and returns a
\* document, raising nothing, for every Object with exactly one key, whatever
\* that key's value.
C7_SingleRootSucceeds ==
    step \in {"formatted", "raised"} =>
        IF IsDict(data) /\ Len(data.keys) = 1
        THEN Returned(text)
        ELSE text.exc = "TypeError"

\* C10: the value v parsed from an element tree is an Object with exactly one
\* key, format_dict_to_xml(v) does not fail, and parsing the document it
\* returns gives v again.
C10_ReparseGivesSameValue ==
    /\ step \in {"parsed", "parsed_formatted", "parsed_raised", "parsed_reparsed"} =>
           /\ Returned(parsed)
           /\ IsDict(parsed.val)
           /\ Len(parsed.val.keys) = 1
    /\ step # "parsed_raised"
    /\ step = "parsed_reparsed" => parsed_again = parsed

-----------------------------------------------------------------------------
(* The plain claim *)

\* C8: format_dict_to_plain raises nothing on any value; on a value that is not
\* an Object with a text key (a Scalar or an Array included) it returns exactly
\* the text format_dict_to_json returns for the same value, and on an Object
\* with a text key the string form of that key's value.
C8_PlainFallbackTotal ==
    text # Unset =>
        /\ Returned(text)
        /\ IF IsDict(data) /\ \E i \in 1..Len(data.keys) : data.keys[i] = <<"t", "e", "x", "t">>
           THEN LET v == data.vals[CHOOSE i \in 1..Len(data.keys) :
                                       data.keys[i] = <<"t", "e", "x", "t">>]
                IN text.val = IF IsScalar(v) THEN v.s ELSE str(v)
           ELSE json_text # Unset => /\ Returned(json_text)
                                     /\ text.val = json_text.val

\* C8: both formatters have run on an Array that holds an Object with a text
\* key, and on an Object without one.
C8_FallbackTaken ==
    /\ text # Unset
    /\ json_text # Unset
    /\ IsList(data)
    /\ Len(data.vals) = 1
    /\ IsDict(data.vals[1])
    /\ DictHas(data.vals[1], <<"t", "e", "x", "t">>)
    /\ text.val = json_text.val

=============================================================================
